---- MODULE Spec2Model ----
(***************************************************************************)
(* A model of the read-only TiVo Media File System decoder:                *)
(*   - the inode hash lookup      (ovit/src/lib.rs, get_inode_from_fsid)   *)
(*   - the inode zone iterator    (tivo-media-file-system/src/inode.rs)    *)
(*   - the image open sequence    (src/ovit/mod.rs, from_disk_image)       *)
(*   - the volume header parsers  (src/ovit/mod.rs, media_file_system.rs)  *)
(*   - the inode record parsers   (inode.rs, media_file_system.rs)         *)
(*   - the byte order correction  (src/ovit/mod.rs, correct_byte_order)    *)
(* 32-bit words that steer control flow (signatures, magics, flags) are    *)
(* kept as tuples of four bytes, as they lie on disk.                      *)
(***************************************************************************)
EXTENDS Integers, Sequences, FiniteSets, TLC

VARIABLES
    \* the inode sectors of the image: sector -> raw inode record
    disk,
    \* MFSINodeIter
    next_inode_sector, last_inode_sector,
    \* the inode zone's first sector, kept to state the claims
    first_inode_sector,
    \* what MFSINodeIter::next has returned so far
    yielded, exhausted,
    \* get_inode_from_fsid: argument, locals, position, result, sectors read
    fsid, inode_count, inode_id_base, current_inode_id, current_inode,
    lk_pc, lk_result, probes,
    \* the image file: block number -> bytes of the block (offset -> byte,
    \* offsets left out hold zero); blocks past the domain are past the end
    image,
    \* the blocks whose read fails with an I/O error
    ioerr,
    \* whether the decoder runs on a little-endian machine (to_ne_bytes)
    native_le,
    \* from_disk_image (src/ovit/mod.rs): position, locals, result
    op_pc, is_byte_swapped, partitions, offset, app_start, volume_header,
    zones, next_zone_ptr, next_zone_size, op_result,
    \* the (location, count) of every block read made by from_disk_image
    reads,
    \* the lines from_disk_image has printed
    printed,
    \* the volume header parsers on their own: the input block and what
    \* MFSVolumeHeader::from_bytes and MFSVolumeHeader::parse make of it
    pa_pc, pa_input, pa_from_bytes, pa_parse,
    \* the inode record parsers on their own: the input block, the sector it
    \* was read from, and what MFSINode::parse of inode.rs and of
    \* media_file_system.rs make of it
    in_pc, in_input, in_sector, in_parse, in_old,
    \* correct_byte_order on its own: the buffer and flag it is given, what
    \* the calls so far have made of the buffer, and how many calls were made
    nz_pc, nz_input, nz_swapped, nz_out, nz_count

iterVars == <<next_inode_sector, last_inode_sector, first_inode_sector,
              yielded, exhausted>>
lookupVars == <<fsid, inode_count, inode_id_base, current_inode_id,
                current_inode, lk_pc, lk_result, probes>>
imageVars == <<image, ioerr, native_le>>
openVars == <<op_pc, is_byte_swapped, partitions, offset, app_start,
              volume_header, zones, next_zone_ptr, next_zone_size, op_result,
              reads, printed>>
parseVars == <<pa_pc, pa_input, pa_from_bytes, pa_parse>>
inodeVars == <<in_pc, in_input, in_sector, in_parse, in_old>>
normVars == <<nz_pc, nz_input, nz_swapped, nz_out, nz_count>>
vars == <<disk, iterVars, lookupVars, imageVars, openVars, parseVars,
          inodeVars, normVars>>

-----------------------------------------------------------------------------
(* Bounds of the model *)

\* logical inode slots present in the image (two sectors each)
MaxSlots == 5
\* fsids 1..MaxFsid are looked up
MaxFsid == 3
\* blocks of the image that hold partition entries
MaxParts == 3
\* blocks of the image that hold zone maps
MaxZones == 3
\* zone maps the walk collects before the model stops following a cycle
MaxChain == 5

-----------------------------------------------------------------------------
(* Words and bytes *)

\* the bitwise AND of two naturals
RECURSIVE BitAnd(_, _)
BitAnd(a, b) ==
    IF a = 0 \/ b = 0 THEN 0
    ELSE (a % 2) * (b % 2) + 2 * BitAnd(a \div 2, b \div 2)

\* 0x91231ebc, the inode signature
INODE_SIGNATURE == <<145, 35, 30, 188>>
\* 0x4000_0000
INODE_DATA_IN_HEADER == <<64, 0, 0, 0>>
\* 0x8000_0000, the flags value the lookup loop compares with
INODE_CHAINED == <<128, 0, 0, 0>>
\* 0xC000_0000: chained and data in header
INODE_CHAINED_DATA == <<192, 0, 0, 0>>
NO_FLAGS == <<0, 0, 0, 0>>

FSID_HASH == 67289

InodeTypes == {0, 1, 2, 4, 8}

-----------------------------------------------------------------------------
(* The inode sectors of the image *)

FirstSector == 1122
Sectors == FirstSector .. (FirstSector + 2 * MaxSlots - 1)

\* a sector holding zeros: what a read past the end of the image leaves in
\* the buffer (read_at returns Ok(0) there), and what a blank sector holds
ZeroSector == [fsid |-> 0, inode |-> 0, type |-> 0, sig |-> <<0, 0, 0, 0>>,
               flags |-> NO_FLAGS]

RawInode(f, i, fl) ==
    [fsid |-> f, inode |-> i, type |-> 1, sig |-> INODE_SIGNATURE, flags |-> fl]

SectorContent(d, sector) == IF sector \in DOMAIN d THEN d[sector] ELSE ZeroSector

NoInode == [fsid |-> 0, inode |-> 0, flags |-> NO_FLAGS, sector_in_map |-> 0]

\* MFSINode::parse, the part of the record the lookup and the iterator use:
\* the type byte must be one of the five known types and the signature must
\* be 0x91231ebc
MFSINode_parse(raw, sector) ==
    IF raw.type \in InodeTypes /\ raw.sig = INODE_SIGNATURE
    THEN [ok |-> TRUE,
          inode |-> [fsid |-> raw.fsid, inode |-> raw.inode, flags |-> raw.flags,
                     sector_in_map |-> sector]]
    ELSE [ok |-> FALSE, inode |-> NoInode]

\* MFSINode::from_path_at_sector / from_file_at_sector: read one block and parse
from_file_at_sector(d, sector) == MFSINode_parse(SectorContent(d, sector), sector)

-----------------------------------------------------------------------------
(* MFSINodeIter *)

\* ExactSizeIterator::len, in usize arithmetic: the subtraction underflows
\* (a panic in a debug build) when next_inode_sector > last_inode_sector
IterLen(next, last) == (last - next) \div 2

\* line 197, the step the source has commented out
IterStepOne(sector) == sector + 1

\* line 198: every inode exists on the drive twice
IterStep(sector) == sector + 2

IterNextSome ==
    /\ next_inode_sector # last_inode_sector + 1
    /\ LET r == from_file_at_sector(disk, next_inode_sector) IN
         /\ r.ok
         /\ yielded' = Append(yielded, r.inode)
         /\ next_inode_sector' = IterStep(next_inode_sector)
    /\ exhausted' = FALSE
    /\ UNCHANGED <<disk, last_inode_sector, first_inode_sector, lookupVars,
                   imageVars, openVars, parseVars, inodeVars, normVars>>

\* the read or the parse failed: next() prints the error and returns None
IterNextReadFailed ==
    /\ next_inode_sector # last_inode_sector + 1
    /\ ~from_file_at_sector(disk, next_inode_sector).ok
    /\ exhausted' = TRUE
    /\ UNCHANGED <<disk, next_inode_sector, last_inode_sector, first_inode_sector,
                   yielded, lookupVars, imageVars, openVars, parseVars, inodeVars, normVars>>

IterNextNone ==
    /\ next_inode_sector = last_inode_sector + 1
    /\ exhausted' = TRUE
    /\ UNCHANGED <<disk, next_inode_sector, last_inode_sector, first_inode_sector,
                   yielded, lookupVars, imageVars, openVars, parseVars, inodeVars, normVars>>

-----------------------------------------------------------------------------
(* TivoDrive::get_inode_from_fsid *)

\* the hash masked with the slot count less one
fsid_hash_less_one(f, size) == BitAnd(f * FSID_HASH, size - 1)

\* lines 15-20: the product, in u64, masked with the slot count
fsid_hash(f, size) == BitAnd(f * FSID_HASH, size)

sector_for_inode_halved(inode) == inode + 1122

sector_for_inode(inode) == (2 * inode) + 1122

NoResult == [kind |-> "none", msg |-> "", inode |-> NoInode]
OkResult(i) == [kind |-> "Ok", msg |-> "", inode |-> i]
ErrResult(m) == [kind |-> "Err", msg |-> m, inode |-> NoInode]
PanicResult(m) == [kind |-> "Panic", msg |-> m, inode |-> NoInode]

\* lines 92-109: size the table, hash, read the base slot
LookupStart ==
    /\ lk_pc = "start"
    /\ LET count == IterLen(next_inode_sector, last_inode_sector)
           inode == fsid_hash(fsid, count)
           sector == sector_for_inode(inode)
           first_inode == from_file_at_sector(disk, sector)
       IN
         /\ inode_count' = count
         /\ probes' = <<sector>>
         /\ IF ~first_inode.ok
            THEN /\ lk_result' = ErrResult("Could not open inode")
                 /\ lk_pc' = "done"
                 /\ UNCHANGED <<inode_id_base, current_inode_id, current_inode>>
            ELSE IF first_inode.inode.fsid = fsid
            THEN /\ lk_result' = OkResult(first_inode.inode)
                 /\ lk_pc' = "done"
                 /\ UNCHANGED <<inode_id_base, current_inode_id, current_inode>>
            ELSE /\ inode_id_base' = first_inode.inode.inode
                 /\ current_inode_id' = inode
                 /\ current_inode' = first_inode.inode
                 /\ lk_pc' = "loop"
                 /\ UNCHANGED lk_result
    /\ UNCHANGED <<disk, iterVars, fsid, imageVars, openVars, parseVars, inodeVars, normVars>>

\* the first two conjuncts of the while condition (lines 117-118)
StillLooking == current_inode.fsid # fsid /\ current_inode.flags = INODE_CHAINED

\* the third (line 119); evaluated only when inode_count # 0
NotWrapped == ((current_inode_id + 1) % inode_count) # inode_id_base

\* one turn of the while loop (lines 117-128)
LookupProbe ==
    /\ lk_pc = "loop"
    /\ StillLooking
    /\ inode_count # 0
    /\ NotWrapped
    /\ LET sector == sector_for_inode(current_inode_id + 1)
           r == from_file_at_sector(disk, sector)
       IN
         /\ current_inode_id' = current_inode_id + 1
         /\ probes' = Append(probes, sector)
         /\ IF r.ok
            THEN /\ current_inode' = r.inode
                 /\ UNCHANGED <<lk_pc, lk_result>>
            ELSE /\ lk_result' = ErrResult("Could not open inode")
                 /\ lk_pc' = "done"
                 /\ UNCHANGED current_inode
    /\ UNCHANGED <<disk, iterVars, fsid, inode_count, inode_id_base,
                   imageVars, openVars, parseVars, inodeVars, normVars>>

\* line 119 with inode_count = 0: the remainder by zero panics
LookupPanic ==
    /\ lk_pc = "loop"
    /\ StillLooking
    /\ inode_count = 0
    /\ lk_result' = PanicResult("remainder with a divisor of zero")
    /\ lk_pc' = "done"
    /\ UNCHANGED <<disk, iterVars, fsid, inode_count, inode_id_base,
                   current_inode_id, current_inode, probes, imageVars, openVars, parseVars, inodeVars, normVars>>

\* the end of the loop without the comparison of line 130
LookupExitUnchecked ==
    /\ lk_pc = "loop"
    /\ ~(StillLooking /\ inode_count # 0 /\ NotWrapped)
    /\ ~(StillLooking /\ inode_count = 0)
    /\ lk_result' = OkResult(current_inode)
    /\ lk_pc' = "done"
    /\ UNCHANGED <<disk, iterVars, fsid, inode_count, inode_id_base,
                   current_inode_id, current_inode, probes, imageVars, openVars,
                   parseVars, inodeVars, normVars>>

\* the loop has ended (lines 130-134)
LookupExit ==
    /\ lk_pc = "loop"
    /\ ~(StillLooking /\ inode_count # 0 /\ NotWrapped)
    /\ ~(StillLooking /\ inode_count = 0)
    /\ lk_result' = IF current_inode.fsid = fsid
                    THEN OkResult(current_inode)
                    ELSE ErrResult("Could not get INode for FSID")
    /\ lk_pc' = "done"
    /\ UNCHANGED <<disk, iterVars, fsid, inode_count, inode_id_base,
                   current_inode_id, current_inode, probes, imageVars, openVars, parseVars, inodeVars, normVars>>

-----------------------------------------------------------------------------
(* Blocks, byte order and field access (src/ovit/mod.rs) *)

APM_BLOCK_SIZE == 512

\* 0x1492 and 0x9214
TIVO_BOOT_MAGIC == 5266
TIVO_BOOT_AMIGC == 37396

\* 0xABBA_FEED and 0xEBBA_FEED
MFS32_HEADER_MAGIC == <<171, 186, 254, 237>>
MFS64_HEADER_MAGIC == <<235, 186, 254, 237>>

\* a buffer is its length and its bytes (offset -> byte, zero where left out)
Byte(buf, off) == IF off \in DOMAIN buf.bytes THEN buf.bytes[off] ELSE 0

EmptyBuffer == [len |-> 0, bytes |-> <<>>]

\* get_blocks_from_drive: a zeroed buffer of count blocks, filled by one
\* read_at at location * 512. The read fails on an I/O error; past the end of
\* the file it succeeds with fewer (or no) bytes and the buffer keeps its zeros.
get_blocks_from_drive(location, count) ==
    IF location \in ioerr
    THEN [ok |-> FALSE, buf |-> EmptyBuffer]
    ELSE LET got == {k \in 0 .. count - 1 :
                       \A j \in 0 .. k : /\ location + j \in DOMAIN image
                                         /\ location + j \notin ioerr}
             offs == UNION {{k * APM_BLOCK_SIZE + o : o \in DOMAIN image[location + k]} :
                            k \in got}
         IN [ok |-> TRUE,
             buf |-> [len |-> APM_BLOCK_SIZE * count,
                      bytes |-> [x \in offs |->
                                   image[location + (x \div APM_BLOCK_SIZE)]
                                        [x % APM_BLOCK_SIZE]]]]

get_block_from_drive(location) == get_blocks_from_drive(location, 1)

from_be_bytes(c0, c1) == c0 * 256 + c1
swap_bytes(w) == (w % 256) * 256 + (w \div 256)
to_ne_bytes(w) == IF native_le THEN <<w % 256, w \div 256>>
                  ELSE <<w \div 256, w % 256>>

\* the byte order test with the two bytes read little-endian
check_byte_order_le(buffer) ==
    IF (buffer[2] * 256 + buffer[1]) = TIVO_BOOT_MAGIC THEN "Normal"
    ELSE IF (buffer[2] * 256 + buffer[1]) = TIVO_BOOT_AMIGC THEN "Swapped"
    ELSE "Not a TiVo Drive"

\* check_byte_order (ovit/src/lib.rs) and lines 237-243 of from_disk_image
\* (src/ovit/mod.rs): the match on the first two bytes read big-endian
check_byte_order(buffer) ==
    IF from_be_bytes(buffer[1], buffer[2]) = TIVO_BOOT_MAGIC THEN "Normal"
    ELSE IF from_be_bytes(buffer[1], buffer[2]) = TIVO_BOOT_AMIGC THEN "Swapped"
    ELSE "Not a TiVo Drive"

\* what correct_byte_order makes of one two-byte chunk
CorrectChunk(c0, c1, swapped) ==
    to_ne_bytes(IF swapped THEN from_be_bytes(c0, c1)
                ELSE swap_bytes(from_be_bytes(c0, c1)))

\* correct_byte_order on a buffer: chunks_exact(2) drops a trailing odd byte
correct_byte_order(raw_buffer, swapped) ==
    LET n == raw_buffer.len - (raw_buffer.len % 2)
        offs == {o \in UNION {{2 * (x \div 2), 2 * (x \div 2) + 1} :
                              x \in DOMAIN raw_buffer.bytes} : o < n}
    IN [len |-> n,
        bytes |-> [o \in offs |->
                     CorrectChunk(Byte(raw_buffer, 2 * (o \div 2)),
                                  Byte(raw_buffer, 2 * (o \div 2) + 1),
                                  swapped)[(o % 2) + 1]]]

BytesRange(buf, lo, hi) == [i \in 1 .. hi - lo + 1 |-> Byte(buf, lo + i - 1)]

\* whether bytes.get(lo..=hi) is Some
HasRange(buf, hi) == hi < buf.len

\* String::from_utf8 accepts the byte string: every byte is an ASCII byte, a
\* lead byte with its continuation bytes behind it, or a continuation byte
\* that belongs to a lead byte
Utf8Need(b) ==
    IF b >= 194 /\ b <= 223 THEN 1
    ELSE IF b >= 224 /\ b <= 239 THEN 2
    ELSE IF b >= 240 /\ b <= 244 THEN 3
    ELSE 0
Utf8Cont(b) == b >= 128 /\ b <= 191
Utf8Valid(s) ==
    \A i \in 1 .. Len(s) :
        \/ s[i] < 128
        \/ /\ Utf8Need(s[i]) > 0
           /\ i + Utf8Need(s[i]) <= Len(s)
           /\ \A k \in 1 .. Utf8Need(s[i]) : Utf8Cont(s[i + k])
           /\ (s[i] = 224 => s[i + 1] >= 160)
           /\ (s[i] = 237 => s[i + 1] <= 159)
           /\ (s[i] = 240 => s[i + 1] >= 144)
           /\ (s[i] = 244 => s[i + 1] <= 143)
        \/ /\ Utf8Cont(s[i])
           /\ \E k \in 1 .. 3 :
                 /\ i - k >= 1
                 /\ Utf8Need(s[i - k]) >= k
                 /\ \A m \in 1 .. k - 1 : Utf8Cont(s[i - m])

\* get_string_from_bytes_range
get_string_from_bytes_range(buf, lo, hi) ==
    IF ~HasRange(buf, hi) THEN [ok |-> FALSE, str |-> <<>>]
    ELSE IF ~Utf8Valid(BytesRange(buf, lo, hi)) THEN [ok |-> FALSE, str |-> <<>>]
    ELSE [ok |-> TRUE, str |-> BytesRange(buf, lo, hi)]

\* get_u32_from_bytes_range on a range that is there: the big-endian value
get_u32_from_bytes_range(buf, lo) ==
    ((Byte(buf, lo) * 256 + Byte(buf, lo + 1)) * 256 + Byte(buf, lo + 2)) * 256
        + Byte(buf, lo + 3)

\* str::trim_matches(char::from(0)): the NULs at both ends go
trim_matches_nul(s) ==
    LET keep == {i \in 1 .. Len(s) : s[i] # 0} IN
    IF keep = {} THEN <<>>
    ELSE SubSeq(s, CHOOSE i \in keep : \A j \in keep : i <= j,
                   CHOOSE i \in keep : \A j \in keep : i >= j)

\* "PM" and "MFS"
STR_PM == <<80, 77>>
STR_MFS == <<77, 70, 83>>

-----------------------------------------------------------------------------
(* Partition, MFSVolumeHeader, MFSZoneMap (src/ovit/mod.rs) *)

NoPartition ==
    [signature |-> <<>>, partitions_total |-> 0, starting_sector |-> 0,
     sector_size |-> 0, name |-> <<>>, type |-> <<>>,
     starting_data_sector |-> 0, data_sectors |-> 0, status |-> 0]

\* Partition::new: Ok(partition), Err("Invalid signature in sector"), or a
\* panic where an expect() meets a failed conversion or a missing range
Partition_new(bytes) ==
    LET signature == get_string_from_bytes_range(bytes, 0, 1)
        name == get_string_from_bytes_range(bytes, 16, 47)
        type == get_string_from_bytes_range(bytes, 48, 79)
    IN IF ~signature.ok
       THEN [kind |-> "Panic", msg |-> "Could not get signature from bytes",
             partition |-> NoPartition]
       ELSE IF signature.str # STR_PM
       THEN [kind |-> "Err", msg |-> "Invalid signature in sector",
             partition |-> NoPartition]
       ELSE IF ~HasRange(bytes, 15)
       THEN [kind |-> "Panic",
             msg |-> "Could not get partitions total from partition entry",
             partition |-> NoPartition]
       ELSE IF ~name.ok
       THEN [kind |-> "Panic", msg |-> "Could not get name from bytes",
             partition |-> NoPartition]
       ELSE IF ~type.ok
       THEN [kind |-> "Panic", msg |-> "Could not get type from bytes",
             partition |-> NoPartition]
       ELSE IF ~HasRange(bytes, 91)
       THEN [kind |-> "Panic",
             msg |-> "Could not get partitions total from partition entry",
             partition |-> NoPartition]
       ELSE [kind |-> "Ok", msg |-> "",
             partition |->
               [signature |-> signature.str,
                partitions_total |-> get_u32_from_bytes_range(bytes, 4),
                starting_sector |-> get_u32_from_bytes_range(bytes, 8),
                sector_size |-> get_u32_from_bytes_range(bytes, 12),
                name |-> trim_matches_nul(name.str),
                type |-> trim_matches_nul(type.str),
                starting_data_sector |-> get_u32_from_bytes_range(bytes, 80),
                data_sectors |-> get_u32_from_bytes_range(bytes, 84),
                status |-> get_u32_from_bytes_range(bytes, 88)]]

NoVolumeHeader ==
    [state |-> 0, magic |-> <<0, 0, 0, 0>>, checksum |-> 0, root_fsid |-> 0,
     firstpartsize |-> 0, partitionlist |-> <<>>, total_sectors |-> 0,
     zonemap_ptr |-> 0, backup_zonemap_ptr |-> 0, zonemap_size |-> 0,
     next_fsid |-> 0]

\* MFSVolumeHeader::from_bytes: the header, or a panic where a range is
\* missing or the device list is no UTF-8. The magic is kept as the four
\* bytes of the u32 that the source formats in hexadecimal; it is not tested.
MFSVolumeHeader_from_bytes(block) ==
    LET partitionlist == get_string_from_bytes_range(block, 36, 163) IN
    IF ~HasRange(block, 219)
    THEN [kind |-> "Panic",
          msg |-> "Could not get partitions total from partition entry",
          header |-> NoVolumeHeader]
    ELSE IF ~partitionlist.ok
    THEN [kind |-> "Panic", msg |-> "Could not get device list from bytes",
          header |-> NoVolumeHeader]
    ELSE [kind |-> "Ok", msg |-> "",
          header |->
            [state |-> get_u32_from_bytes_range(block, 0),
             magic |-> BytesRange(block, 4, 7),
             checksum |-> get_u32_from_bytes_range(block, 8),
             root_fsid |-> get_u32_from_bytes_range(block, 16),
             firstpartsize |-> get_u32_from_bytes_range(block, 20),
             partitionlist |-> trim_matches_nul(partitionlist.str),
             total_sectors |-> get_u32_from_bytes_range(block, 164),
             zonemap_ptr |-> get_u32_from_bytes_range(block, 196),
             backup_zonemap_ptr |-> get_u32_from_bytes_range(block, 200),
             zonemap_size |-> get_u32_from_bytes_range(block, 204),
             next_fsid |-> get_u32_from_bytes_range(block, 216)]]

NoZoneMap ==
    [sector |-> 0, backup_sector |-> 0, zonemap_size |-> 0,
     next_zonemap_ptr |-> 0, backup_next_zonemap_ptr |-> 0,
     next_zonemap_size |-> 0, type |-> 0, crc |-> 0, zone_start |-> 0,
     next_zone_ptr1 |-> 0, zone_size |-> 0, per_chunk |-> 0, buddy_size |-> 0]

\* MFSZoneMap::from_bytes: the zone map, or a panic where a range is missing
MFSZoneMap_from_bytes(block) ==
    IF ~HasRange(block, 63)
    THEN [kind |-> "Panic",
          msg |-> "Could not get partitions total from partition entry",
          zonemap |-> NoZoneMap]
    ELSE [kind |-> "Ok", msg |-> "",
          zonemap |->
            [sector |-> get_u32_from_bytes_range(block, 0),
             backup_sector |-> get_u32_from_bytes_range(block, 4),
             zonemap_size |-> get_u32_from_bytes_range(block, 8),
             next_zonemap_ptr |-> get_u32_from_bytes_range(block, 12),
             backup_next_zonemap_ptr |-> get_u32_from_bytes_range(block, 16),
             next_zonemap_size |-> get_u32_from_bytes_range(block, 20),
             type |-> get_u32_from_bytes_range(block, 28),
             crc |-> get_u32_from_bytes_range(block, 36),
             zone_start |-> get_u32_from_bytes_range(block, 40),
             next_zone_ptr1 |-> get_u32_from_bytes_range(block, 44),
             zone_size |-> get_u32_from_bytes_range(block, 48),
             per_chunk |-> get_u32_from_bytes_range(block, 52),
             buddy_size |-> get_u32_from_bytes_range(block, 60)]]

-----------------------------------------------------------------------------
(* TivoDrive::from_disk_image (src/ovit/mod.rs) *)

OpenOk == [kind |-> "Ok", msg |-> ""]
OpenErr(m) == [kind |-> "Err", msg |-> m]
OpenPanic(m) == [kind |-> "Panic", msg |-> m]
OpenRunning == [kind |-> "none", msg |-> ""]

\* the partition of the map that find() returns: the first of type "MFS"
MfsIndexes(parts) == {i \in 1 .. Len(parts) : parts[i].type = STR_MFS}
FirstMfs(parts) == CHOOSE i \in MfsIndexes(parts) : \A j \in MfsIndexes(parts) : i <= j

\* lines 229-243: the first two bytes decide the byte order
OpenDetect ==
    /\ op_pc = "boot"
    /\ IF 0 \notin DOMAIN image \/ 0 \in ioerr
       THEN /\ op_result' = OpenErr("Could not read first two bytes from file")
            /\ op_pc' = "done"
            /\ UNCHANGED is_byte_swapped
       ELSE LET buffer == <<Byte([len |-> 2, bytes |-> image[0]], 0),
                            Byte([len |-> 2, bytes |-> image[0]], 1)>>
            IN IF check_byte_order(buffer) = "Normal"
               THEN /\ is_byte_swapped' = FALSE
                    /\ op_pc' = "descriptor"
                    /\ UNCHANGED op_result
               ELSE IF check_byte_order(buffer) = "Swapped"
               THEN /\ is_byte_swapped' = TRUE
                    /\ op_pc' = "descriptor"
                    /\ UNCHANGED op_result
               ELSE /\ op_result' = OpenErr("Not a TiVo Drive")
                    /\ op_pc' = "done"
                    /\ UNCHANGED is_byte_swapped
    /\ UNCHANGED <<partitions, offset, app_start, volume_header, zones,
                   next_zone_ptr, next_zone_size, reads, printed>>
    /\ UNCHANGED <<disk, iterVars, lookupVars, parseVars, inodeVars, normVars, imageVars>>

\* lines 248-258: block 1 holds the entry that describes the partition map
OpenDescriptor ==
    /\ op_pc = "descriptor"
    /\ reads' = Append(reads, [location |-> 1, count |-> 1])
    /\ LET blk == get_block_from_drive(1)
           p == Partition_new(correct_byte_order(blk.buf, is_byte_swapped))
       IN IF ~blk.ok
          THEN /\ op_result' = OpenErr("Could not read block containing partition map")
               /\ op_pc' = "done"
               /\ UNCHANGED <<partitions, offset>>
          ELSE IF p.kind # "Ok"
          THEN /\ op_result' = OpenPanic("Could not reconstruct Driver Descriptor Map")
               /\ op_pc' = "done"
               /\ UNCHANGED <<partitions, offset>>
          ELSE /\ partitions' = <<p.partition>>
               /\ offset' = 2
               /\ op_pc' = "partitions"
               /\ UNCHANGED op_result
    /\ UNCHANGED <<is_byte_swapped, app_start, volume_header, zones,
                   next_zone_ptr, next_zone_size>>
    /\ UNCHANGED <<disk, iterVars, lookupVars, parseVars, inodeVars, normVars, imageVars, printed>>

\* lines 260-276: one turn of the loop over 2..=partitions_total
OpenPartition ==
    /\ op_pc = "partitions"
    /\ offset <= partitions[1].partitions_total
    /\ reads' = Append(reads, [location |-> offset, count |-> 1])
    /\ LET blk == get_block_from_drive(offset)
           p == Partition_new(correct_byte_order(blk.buf, is_byte_swapped))
       IN IF ~blk.ok
          THEN /\ op_result' = OpenErr("Could not read block containing partition map")
               /\ op_pc' = "done"
               /\ UNCHANGED <<partitions, offset>>
          ELSE IF p.kind = "Ok"
          THEN /\ partitions' = Append(partitions, p.partition)
               /\ offset' = offset + 1
               /\ UNCHANGED <<op_pc, op_result>>
          ELSE /\ op_result' = [kind |-> p.kind, msg |-> p.msg]
               /\ op_pc' = "done"
               /\ UNCHANGED <<partitions, offset>>
    /\ UNCHANGED <<is_byte_swapped, app_start, volume_header, zones,
                   next_zone_ptr, next_zone_size>>
    /\ UNCHANGED <<disk, iterVars, lookupVars, parseVars, inodeVars, normVars, imageVars, printed>>

\* lines 278-291: find the "MFS" partition and read the volume header from
\* its first block
OpenAppRegion ==
    /\ op_pc = "partitions"
    /\ offset > partitions[1].partitions_total
    /\ IF MfsIndexes(partitions) = {}
       THEN /\ op_result' = OpenPanic("called Option::unwrap() on a None value")
            /\ op_pc' = "done"
            /\ UNCHANGED <<app_start, volume_header, reads>>
       ELSE LET app_region == partitions[FirstMfs(partitions)]
                blk == get_block_from_drive(app_region.starting_sector)
                h == MFSVolumeHeader_from_bytes(
                         correct_byte_order(blk.buf, is_byte_swapped))
            IN /\ app_start' = app_region.starting_sector
               /\ reads' = Append(reads, [location |-> app_region.starting_sector,
                                          count |-> 1])
               /\ IF ~blk.ok
                  THEN /\ op_result' = OpenPanic("called Result::unwrap() on an Err value")
                       /\ op_pc' = "done"
                       /\ UNCHANGED volume_header
                  ELSE IF h.kind # "Ok"
                  THEN /\ op_result' = OpenPanic(h.msg)
                       /\ op_pc' = "done"
                       /\ UNCHANGED volume_header
                  ELSE /\ volume_header' = h.header
                       /\ op_pc' = "zonemap"
                       /\ UNCHANGED op_result
    /\ UNCHANGED <<is_byte_swapped, partitions, offset, zones, next_zone_ptr,
                   next_zone_size>>
    /\ UNCHANGED <<disk, iterVars, lookupVars, parseVars, inodeVars, normVars, imageVars, printed>>

\* a zone map pointer taken as an absolute block number
zonemap_location_absolute(starting_sector, ptr) == ptr

\* lines 296 and 313: zone map pointers count from the start of the MFS partition
zonemap_location(starting_sector, ptr) == starting_sector + ptr

\* lines 293-307: the first zone map, one block at starting_sector + zonemap_ptr
OpenFirstZonemap ==
    /\ op_pc = "zonemap"
    /\ reads' = Append(reads, [location |-> zonemap_location(app_start, volume_header.zonemap_ptr),
                               count |-> 1])
    /\ LET blk == get_block_from_drive(zonemap_location(app_start, volume_header.zonemap_ptr))
           z == MFSZoneMap_from_bytes(correct_byte_order(blk.buf, is_byte_swapped))
       IN IF ~blk.ok
          THEN /\ op_result' = OpenPanic("called Result::unwrap() on an Err value")
               /\ op_pc' = "done"
               /\ UNCHANGED <<zones, next_zone_ptr, next_zone_size>>
          ELSE /\ zones' = <<z.zonemap>>
               /\ next_zone_ptr' = z.zonemap.next_zonemap_ptr
               /\ next_zone_size' = z.zonemap.next_zonemap_size
               /\ op_pc' = "walk"
               /\ UNCHANGED op_result
    /\ UNCHANGED <<is_byte_swapped, partitions, offset, app_start, volume_header>>
    /\ UNCHANGED <<disk, iterVars, lookupVars, parseVars, inodeVars, normVars, imageVars, printed>>

\* lines 309-335: one turn of the loop over the chain. A failed read prints
\* two lines and breaks out of the loop, after which Ok(TivoDrive) is returned.
OpenNextZonemap ==
    /\ op_pc = "walk"
    /\ next_zone_ptr # 0
    /\ Len(zones) < MaxChain
    /\ reads' = Append(reads, [location |-> zonemap_location(app_start, next_zone_ptr),
                               count |-> next_zone_size])
    /\ LET blks == get_blocks_from_drive(zonemap_location(app_start, next_zone_ptr),
                                         next_zone_size)
           z == MFSZoneMap_from_bytes(correct_byte_order(blks.buf, is_byte_swapped))
       IN IF ~blks.ok
          THEN /\ printed' = printed \o <<"Couldn't load zonemap blocks at ptr and size",
                                            "Lazilly continuing">>
               /\ op_result' = OpenOk
               /\ op_pc' = "done"
               /\ UNCHANGED <<zones, next_zone_ptr, next_zone_size>>
          ELSE IF z.kind # "Ok"
          THEN /\ op_result' = OpenPanic(z.msg)
               /\ op_pc' = "done"
               /\ UNCHANGED <<zones, next_zone_ptr, next_zone_size, printed>>
          ELSE /\ next_zone_ptr' = z.zonemap.next_zonemap_ptr
               /\ next_zone_size' = z.zonemap.next_zonemap_size
               /\ zones' = Append(zones, z.zonemap)
               /\ UNCHANGED <<op_pc, op_result, printed>>
    /\ UNCHANGED <<is_byte_swapped, partitions, offset, app_start, volume_header>>
    /\ UNCHANGED <<disk, iterVars, lookupVars, parseVars, inodeVars, normVars, imageVars>>

\* lines 337-341: the chain ended with a zero pointer
OpenReturn ==
    /\ op_pc = "walk"
    /\ next_zone_ptr = 0
    /\ op_result' = OpenOk
    /\ op_pc' = "done"
    /\ UNCHANGED <<is_byte_swapped, partitions, offset, app_start, volume_header,
                   zones, next_zone_ptr, next_zone_size, reads, printed>>
    /\ UNCHANGED <<disk, iterVars, lookupVars, parseVars, inodeVars, normVars, imageVars>>

-----------------------------------------------------------------------------
(* MFSVolumeHeader::parse (src/ovit/media_file_system.rs) *)

NoNomHeader ==
    [state |-> 0, checksum |-> 0, root_fsid |-> 0, firstpartsize |-> 0,
     partitionlist |-> <<>>, total_sectors |-> 0, next_zonemap_sector |-> 0,
     next_zonemap_backup_sector |-> 0, next_zonemap_partition_size |-> 0,
     next_fsid |-> 0]

\* the nom parser: streaming be_u32/take need all 232 bytes (Incomplete
\* otherwise), tag() accepts the 32-bit magic only, string() needs UTF-8
MFSVolumeHeader_parse(input) ==
    IF ~HasRange(input, 7)
    THEN [kind |-> "Err", msg |-> "Incomplete", header |-> NoNomHeader]
    ELSE IF BytesRange(input, 4, 7) # MFS32_HEADER_MAGIC
    THEN [kind |-> "Err", msg |-> "Tag", header |-> NoNomHeader]
    ELSE IF ~HasRange(input, 163)
    THEN [kind |-> "Err", msg |-> "Incomplete", header |-> NoNomHeader]
    ELSE IF ~Utf8Valid(BytesRange(input, 36, 163))
    THEN [kind |-> "Err", msg |-> "ParseTo", header |-> NoNomHeader]
    ELSE IF ~HasRange(input, 231)
    THEN [kind |-> "Err", msg |-> "Incomplete", header |-> NoNomHeader]
    ELSE [kind |-> "Ok", msg |-> "",
          header |->
            [state |-> get_u32_from_bytes_range(input, 0),
             checksum |-> get_u32_from_bytes_range(input, 8),
             root_fsid |-> get_u32_from_bytes_range(input, 16),
             firstpartsize |-> get_u32_from_bytes_range(input, 24),
             partitionlist |-> trim_matches_nul(BytesRange(input, 36, 163)),
             total_sectors |-> get_u32_from_bytes_range(input, 164),
             next_zonemap_sector |-> get_u32_from_bytes_range(input, 196),
             next_zonemap_backup_sector |-> get_u32_from_bytes_range(input, 200),
             next_zonemap_partition_size |-> get_u32_from_bytes_range(input, 208),
             next_fsid |-> get_u32_from_bytes_range(input, 216)]]

NotParsed == [kind |-> "none", msg |-> ""]

\* MFSVolumeHeader::from_bytes applied to the input block
ApplyFromBytes ==
    /\ pa_pc = "input"
    /\ pa_from_bytes = NotParsed
    /\ LET r == MFSVolumeHeader_from_bytes(pa_input) IN
         pa_from_bytes' = [kind |-> r.kind, msg |-> r.msg]
    /\ UNCHANGED <<pa_pc, pa_input, pa_parse>>
    /\ UNCHANGED <<disk, iterVars, lookupVars, imageVars, openVars, inodeVars,
                   normVars>>

\* MFSVolumeHeader::parse applied to the input block
ApplyParse ==
    /\ pa_pc = "input"
    /\ pa_parse = NotParsed
    /\ LET r == MFSVolumeHeader_parse(pa_input) IN
         pa_parse' = [kind |-> r.kind, msg |-> r.msg]
    /\ UNCHANGED <<pa_pc, pa_input, pa_from_bytes>>
    /\ UNCHANGED <<disk, iterVars, lookupVars, imageVars, openVars, inodeVars,
                   normVars>>

-----------------------------------------------------------------------------
(* MFSINode::parse on the bytes of a block (inode.rs and media_file_system.rs) *)

\* nom's streaming be_u32 on input that holds the four bytes
be_u32(input, off) ==
    ((Byte(input, off) * 256 + Byte(input, off + 1)) * 256 + Byte(input, off + 2)) * 256
        + Byte(input, off + 3)

\* the record's fields: fsid 0, refcount 4, bootcycles 8, bootsecs 12,
\* inode 16, four bytes skipped, size 24, blocksize 28, blockused 32,
\* last_modified 36, type 40, zone 41, pad 42, signature 44, checksum 48,
\* flags 52; behind them the data, or numblocks 56 and the extents from 60
NoInodeRecord ==
    [fsid |-> 0, inode |-> 0, type |-> 0, flags |-> NO_FLAGS, data |-> <<>>,
     numblocks |-> 0, datablocks |-> <<>>, sector_in_map |-> 0]

InodeErr(m) == [kind |-> "Err", msg |-> m, inode |-> NoInodeRecord]

\* the signature taken as read: only the length of the input is looked at
SignatureSkipped(input) == IF input.len < 48 THEN "Incomplete" ELSE "Ok"

\* nom's streaming tag on what is left of the input at offset 44: Error(Tag)
\* when a byte that is there differs, Incomplete when the bytes run out
SignatureTag(input) ==
    IF \E i \in 0 .. 3 : 44 + i < input.len /\ Byte(input, 44 + i) # INODE_SIGNATURE[i + 1]
    THEN "Tag"
    ELSE IF input.len < 48 THEN "Incomplete"
    ELSE "Ok"

\* MFSINodeDataBlock::parse, the i-th of the extents
MFSINodeDataBlock_parse(input, i) ==
    [sector |-> be_u32(input, 60 + 8 * (i - 1)),
     count |-> be_u32(input, 64 + 8 * (i - 1))]

\* lines 86-101 of inode.rs, 218-233 of media_file_system.rs: the fields up
\* to the flags word, the same in both parsers. "Ok" or the error.
InodeHeader(input) ==
    IF input.len < 41 THEN "Incomplete"
    ELSE IF Byte(input, 40) \notin InodeTypes THEN "NoneOf"
    ELSE IF input.len < 44 THEN "Incomplete"
    ELSE IF SignatureTag(input) # "Ok" THEN SignatureTag(input)
    ELSE IF input.len < 56 THEN "Incomplete"
    ELSE "Ok"

\* MFSINode::parse of inode.rs
MFSINode_parse_bytes(input, sector) ==
    LET flags == BytesRange(input, 52, 55)
        numblocks == be_u32(input, 56)
    IN IF InodeHeader(input) # "Ok" THEN InodeErr(InodeHeader(input))
       ELSE IF flags = INODE_DATA_IN_HEADER
       THEN [kind |-> "Ok", msg |-> "",
             inode |-> [fsid |-> be_u32(input, 0), inode |-> be_u32(input, 16),
                        type |-> Byte(input, 40), flags |-> flags,
                        data |-> BytesRange(input, 56, input.len - 1),
                        numblocks |-> 0, datablocks |-> <<>>,
                        sector_in_map |-> sector]]
       ELSE IF input.len < 60 THEN InodeErr("Incomplete")
       ELSE IF input.len < 60 + 8 * numblocks THEN InodeErr("Incomplete")
       ELSE [kind |-> "Ok", msg |-> "",
             inode |-> [fsid |-> be_u32(input, 0), inode |-> be_u32(input, 16),
                        type |-> Byte(input, 40), flags |-> flags,
                        data |-> <<>>,
                        numblocks |-> numblocks,
                        datablocks |-> [i \in 1 .. numblocks |->
                                          MFSINodeDataBlock_parse(input, i)],
                        sector_in_map |-> sector]]

NoOldInodeRecord ==
    [fsid |-> 0, inode |-> 0, type |-> 0, flags |-> NO_FLAGS, data |-> <<>>,
     numblocks |-> 0, data_block_sector |-> 0, data_block_count |-> 0]

OldInodeErr(m) == [kind |-> "Err", msg |-> m, inode |-> NoOldInodeRecord]

\* MFSINode::parse of media_file_system.rs: behind numblocks it reads one
\* (sector, count) pair, whatever numblocks says
MFSINode_parse_old(input) ==
    LET flags == BytesRange(input, 52, 55) IN
    IF InodeHeader(input) # "Ok" THEN OldInodeErr(InodeHeader(input))
    ELSE IF flags = INODE_DATA_IN_HEADER
    THEN [kind |-> "Ok", msg |-> "",
          inode |-> [fsid |-> be_u32(input, 0), inode |-> be_u32(input, 16),
                     type |-> Byte(input, 40), flags |-> flags,
                     data |-> BytesRange(input, 56, input.len - 1),
                     numblocks |-> 0, data_block_sector |-> 0,
                     data_block_count |-> 0]]
    ELSE IF input.len < 68 THEN OldInodeErr("Incomplete")
    ELSE [kind |-> "Ok", msg |-> "",
          inode |-> [fsid |-> be_u32(input, 0), inode |-> be_u32(input, 16),
                     type |-> Byte(input, 40), flags |-> flags,
                     data |-> <<>>,
                     numblocks |-> be_u32(input, 56),
                     data_block_sector |-> be_u32(input, 60),
                     data_block_count |-> be_u32(input, 64)]]

InodeNotParsed == [kind |-> "none", msg |-> ""]

\* MFSINode::parse of inode.rs applied to the input block
ApplyInodeParse ==
    /\ in_pc = "input"
    /\ in_parse = InodeNotParsed
    /\ in_parse' = MFSINode_parse_bytes(in_input, in_sector)
    /\ UNCHANGED <<in_pc, in_input, in_sector, in_old>>
    /\ UNCHANGED <<disk, iterVars, lookupVars, imageVars, openVars, parseVars,
                   normVars>>

\* MFSINode::parse of media_file_system.rs applied to the input block
ApplyInodeParseOld ==
    /\ in_pc = "input"
    /\ in_old = InodeNotParsed
    /\ in_old' = MFSINode_parse_old(in_input)
    /\ UNCHANGED <<in_pc, in_input, in_sector, in_parse>>
    /\ UNCHANGED <<disk, iterVars, lookupVars, imageVars, openVars, parseVars,
                   normVars>>

-----------------------------------------------------------------------------
(* correct_byte_order applied to a buffer, and to its own result *)

MaxCalls == 2

ApplyCorrect ==
    /\ nz_pc = "input"
    /\ nz_count < MaxCalls
    /\ nz_out' = correct_byte_order(nz_out, nz_swapped)
    /\ nz_count' = nz_count + 1
    /\ UNCHANGED <<nz_pc, nz_input, nz_swapped>>
    /\ UNCHANGED <<disk, iterVars, lookupVars, imageVars, openVars, parseVars,
                   inodeVars>>

-----------------------------------------------------------------------------
(* Initial states *)

IdleOpenState ==
    /\ image = <<>>
    /\ ioerr = {}
    /\ op_pc = "idle"
    /\ is_byte_swapped = FALSE
    /\ partitions = <<>>
    /\ offset = 0
    /\ app_start = 0
    /\ volume_header = NoVolumeHeader
    /\ zones = <<>>
    /\ next_zone_ptr = 0
    /\ next_zone_size = 0
    /\ op_result = OpenRunning
    /\ reads = <<>>
    /\ printed = <<>>

IdleOpen == IdleOpenState /\ native_le = TRUE

IdleDisk == disk = <<>>

IdleParse ==
    /\ pa_pc = "idle"
    /\ pa_input = EmptyBuffer
    /\ pa_from_bytes = NotParsed
    /\ pa_parse = NotParsed

IdleInode ==
    /\ in_pc = "idle"
    /\ in_input = EmptyBuffer
    /\ in_sector = 0
    /\ in_parse = InodeNotParsed
    /\ in_old = InodeNotParsed

IdleNorm ==
    /\ nz_pc = "idle"
    /\ nz_input = EmptyBuffer
    /\ nz_swapped = FALSE
    /\ nz_out = EmptyBuffer
    /\ nz_count = 0

IdleIter ==
    /\ next_inode_sector = FirstSector
    /\ last_inode_sector = FirstSector
    /\ first_inode_sector = FirstSector
    /\ yielded = <<>>
    /\ exhausted = FALSE

IdleLookup ==
    /\ fsid = 0
    /\ inode_count = 0
    /\ inode_id_base = 0
    /\ current_inode_id = 0
    /\ current_inode = NoInode
    /\ lk_pc = "idle"
    /\ lk_result = NoResult
    /\ probes = <<>>

\* what a slot of a table can hold, seen from the fsid looked up
SlotKinds == {"hit", "miss", "free", "chained_data", "bad"}

\* the record of slot i: its inode number is i (inode.rs line 90)
SlotRecord(kind, f, i) ==
    CASE kind = "hit" -> RawInode(f, i, INODE_CHAINED)
      [] kind = "miss" -> RawInode(f + 1, i, INODE_CHAINED)
      [] kind = "free" -> RawInode(0, i, NO_FLAGS)
      [] kind = "chained_data" -> RawInode(f + 1, i, INODE_CHAINED_DATA)
      [] OTHER -> ZeroSector

\* every logical inode is on the drive twice, in two consecutive sectors
TableDisk(kinds, f) ==
    [s \in Sectors |-> SlotRecord(kinds[(s - FirstSector) \div 2], f,
                                  (s - FirstSector) \div 2)]

\* the slots of a zone large enough for the hash to reach past the low bits
WideSlots == 17

\* a zone of WideSlots slots that all hold the same kind of record
WideDisk(kind, f) ==
    [s \in FirstSector .. (FirstSector + 2 * WideSlots - 1) |->
       SlotRecord(kind, f, (s - FirstSector) \div 2)]

\* a lookup on an inode zone of K slots, sectors FirstSector .. FirstSector+2K-1
InitLookup ==
    /\ \/ \E f \in 1 .. MaxFsid, K \in 1 .. MaxSlots,
             kinds \in [0 .. MaxSlots - 1 -> SlotKinds] :
            /\ fsid = f
            /\ disk = TableDisk(kinds, f)
            /\ first_inode_sector = FirstSector
            /\ next_inode_sector = FirstSector
            /\ last_inode_sector = FirstSector + 2 * K - 1
       \/ \E f \in 1 .. MaxFsid, kind \in SlotKinds :
            /\ fsid = f
            /\ disk = WideDisk(kind, f)
            /\ first_inode_sector = FirstSector
            /\ next_inode_sector = FirstSector
            /\ last_inode_sector = FirstSector + 2 * WideSlots - 1
    /\ yielded = <<>>
    /\ exhausted = FALSE
    /\ inode_count = 0
    /\ inode_id_base = 0
    /\ current_inode_id = 0
    /\ current_inode = NoInode
    /\ lk_pc = "start"
    /\ lk_result = NoResult
    /\ probes = <<>>
    /\ IdleOpen
    /\ IdleParse
    /\ IdleInode
    /\ IdleNorm

NextLookup == LookupStart \/ LookupProbe \/ LookupPanic \/ LookupExit

SpecLookup == InitLookup /\ [][NextLookup]_vars

\* an iteration over an inode zone first..last of the image
InitIter ==
    /\ \E good \in SUBSET Sectors, first \in Sectors, last \in Sectors :
         /\ first <= last
         /\ disk = [s \in Sectors |->
                      IF s \in good THEN RawInode(s, (s - FirstSector) \div 2, NO_FLAGS)
                      ELSE ZeroSector]
         /\ first_inode_sector = first
         /\ next_inode_sector = first
         /\ last_inode_sector = last
    /\ yielded = <<>>
    /\ exhausted = FALSE
    /\ IdleLookup
    /\ IdleOpen
    /\ IdleParse
    /\ IdleInode
    /\ IdleNorm

NextIter == IterNextSome \/ IterNextReadFailed \/ IterNextNone

SpecIter == InitIter /\ [][NextIter]_vars

-----------------------------------------------------------------------------
(* The images the open sequence is run on *)

\* the big-endian bytes of v at offsets off..off+3
Put32(off, v) ==
    [o \in off .. off + 3 |->
       CASE o = off -> (v \div 16777216) % 256
         [] o = off + 1 -> (v \div 65536) % 256
         [] o = off + 2 -> (v \div 256) % 256
         [] OTHER -> v % 256]

PutBytes(off, s) == [o \in off .. off + Len(s) - 1 |-> s[o - off + 1]]

\* a block as it lies in a byte-swapped image: the two bytes of every 16-bit
\* word exchanged
Exchanged(block) ==
    LET b == [len |-> APM_BLOCK_SIZE, bytes |-> block]
        offs == UNION {{2 * (x \div 2), 2 * (x \div 2) + 1} : x \in DOMAIN block}
    IN [o \in offs |-> IF o % 2 = 0 THEN Byte(b, o + 1) ELSE Byte(b, o - 1)]

WriteBlock(block, swapped) == IF swapped THEN Exchanged(block) ELSE block

STR_APPLE == <<65, 112, 112, 108, 101>>
STR_DEVICES == <<47, 100, 101, 118, 47, 104, 100, 97, 49, 48>>

PartitionBlock(sig, total, start, type) ==
    PutBytes(0, sig) @@ Put32(4, total) @@ Put32(8, start) @@ Put32(12, 1)
        @@ PutBytes(16, STR_APPLE) @@ PutBytes(48, type) @@ Put32(84, 1)

VolumeHeaderBlock(magic, list, ptr, size) ==
    PutBytes(4, magic) @@ Put32(16, 1) @@ PutBytes(36, list)
        @@ Put32(196, ptr) @@ Put32(204, size) @@ Put32(216, 2)

ZoneMapBlock(sector, next_ptr, next_size) ==
    Put32(0, sector) @@ Put32(8, 1) @@ Put32(12, next_ptr) @@ Put32(20, next_size)
        @@ Put32(40, 1122) @@ Put32(48, 2)

\* the layout: block 0 the boot block, blocks 1..MaxParts the partition map,
\* then the first block of the MFS partition, then MaxZones zone map blocks
VolumeBlock == MaxParts + 1
ZoneBlocks == (VolumeBlock + 1) .. (VolumeBlock + MaxZones)
ImageBlocks == 0 .. (VolumeBlock + MaxZones)
\* a zone map pointer to the block just past the end of the image
PastEndPtr == MaxZones + 1

BootBytes == {0, 20, 146}
BootPairs == {<<a, b>> : a \in BootBytes, b \in BootBytes}
NormalBoot == <<20, 146>>
SwappedBoot == <<146, 20>>

Signatures == {STR_PM, <<88, 88>>, <<255, 255>>}
PartitionTypes == {STR_MFS, STR_APPLE}

\* a chain of two zone maps behind the volume header
PlainZones ==
    [b \in ZoneBlocks |->
       IF b = VolumeBlock + 1 THEN ZoneMapBlock(1, 2, 1)
       ELSE IF b = VolumeBlock + 2 THEN ZoneMapBlock(2, 0, 0)
       ELSE <<>>]

PlainVolume == VolumeHeaderBlock(MFS32_HEADER_MAGIC, STR_DEVICES, 1, 1)

\* the image with the given boot bytes, partition entries, volume header
\* block and zone map blocks
BuildImage(boot, swapped, parts, volume, zoneblocks) ==
    [b \in ImageBlocks |->
       IF b = 0 THEN PutBytes(0, boot)
       ELSE IF b <= MaxParts THEN WriteBlock(parts[b], swapped)
       ELSE IF b = VolumeBlock THEN WriteBlock(volume, swapped)
       ELSE WriteBlock(zoneblocks[b], swapped)]

PlainParts ==
    [b \in 1 .. MaxParts |->
       PartitionBlock(STR_PM, 2, VolumeBlock, IF b = 2 THEN STR_MFS ELSE STR_APPLE)]

\* images that differ in the partition map
PartitionImages ==
    {BuildImage(boot, boot = SwappedBoot,
                [b \in 1 .. MaxParts |->
                   PartitionBlock(sigs[b], total, VolumeBlock, types[b])],
                PlainVolume, PlainZones) :
       boot \in {NormalBoot, SwappedBoot},
       total \in 0 .. MaxParts + 1,
       sigs \in [1 .. MaxParts -> Signatures],
       types \in [1 .. MaxParts -> PartitionTypes]}

\* images that differ in the first two bytes, and the empty file
BootImages ==
    {BuildImage(boot, boot = SwappedBoot, PlainParts, PlainVolume, PlainZones) :
       boot \in BootPairs} \cup {<<>>}

\* what a zone map can name as its successor: the end of the chain, the next
\* block (read as 1, 2 or 0 blocks), a block past the end of the image, or
\* the first zone map again
NextChoices(j) ==
    {<<0, 0>>, <<j + 1, 1>>, <<j + 1, 2>>, <<j + 1, 0>>, <<PastEndPtr, 1>>, <<1, 1>>}

VolumeChoices ==
    {VolumeHeaderBlock(MFS32_HEADER_MAGIC, STR_DEVICES, 1, 1),
     VolumeHeaderBlock(MFS64_HEADER_MAGIC, STR_DEVICES, 1, 2),
     VolumeHeaderBlock(<<222, 173, 190, 239>>, STR_DEVICES, 1, 1),
     VolumeHeaderBlock(MFS32_HEADER_MAGIC, <<47, 255, 254>>, 1, 1)}

\* images that differ in the volume header and the zone map chain
ChainImages ==
    {BuildImage(boot, boot = SwappedBoot, PlainParts, volume,
                [b \in ZoneBlocks |->
                   ZoneMapBlock(b - VolumeBlock, next[b - VolumeBlock][1],
                                next[b - VolumeBlock][2])]) :
       boot \in {NormalBoot, SwappedBoot},
       volume \in VolumeChoices,
       next \in {f \in [1 .. MaxZones -> UNION {NextChoices(j) : j \in 1 .. MaxZones}] :
                   \A j \in 1 .. MaxZones : f[j] \in NextChoices(j)}}

InitOpen ==
    /\ \/ /\ image \in PartitionImages \cup BootImages
          /\ ioerr = {}
          /\ native_le \in BOOLEAN
       \/ /\ image \in ChainImages
          /\ ioerr \in {{}} \cup {{b} : b \in ZoneBlocks}
          /\ native_le = TRUE
    /\ op_pc = "boot"
    /\ is_byte_swapped = FALSE
    /\ partitions = <<>>
    /\ offset = 0
    /\ app_start = 0
    /\ volume_header = NoVolumeHeader
    /\ zones = <<>>
    /\ next_zone_ptr = 0
    /\ next_zone_size = 0
    /\ op_result = OpenRunning
    /\ reads = <<>>
    /\ printed = <<>>
    /\ IdleDisk
    /\ IdleIter
    /\ IdleLookup
    /\ IdleParse
    /\ IdleInode
    /\ IdleNorm

NextOpen ==
    \/ OpenDetect
    \/ OpenDescriptor
    \/ OpenPartition
    \/ OpenAppRegion
    \/ OpenFirstZonemap
    \/ OpenNextZonemap
    \/ OpenReturn

SpecOpen == InitOpen /\ [][NextOpen]_vars

-----------------------------------------------------------------------------
(* The blocks the volume header parsers are run on *)

HeaderMagics ==
    {MFS32_HEADER_MAGIC, MFS64_HEADER_MAGIC, <<222, 173, 190, 239>>,
     <<0, 0, 0, 0>>, <<171, 186, 254, 238>>}
HeaderLists == {STR_DEVICES, <<47, 255, 254>>}
\* a whole block, a block cut short inside the header, an empty buffer
HeaderLengths == {APM_BLOCK_SIZE, 200, 0}

HeaderInputs ==
    {[len |-> n,
      bytes |-> LET b == VolumeHeaderBlock(magic, list, ptr, 1)
                IN [o \in {x \in DOMAIN b : x < n} |-> b[o]]] :
       magic \in HeaderMagics, list \in HeaderLists, ptr \in 0 .. MaxZones,
       n \in HeaderLengths}

InitParse ==
    /\ pa_pc = "input"
    /\ pa_input \in HeaderInputs
    /\ pa_from_bytes = NotParsed
    /\ pa_parse = NotParsed
    /\ IdleDisk
    /\ IdleIter
    /\ IdleLookup
    /\ IdleOpen
    /\ IdleInode
    /\ IdleNorm

NextParse == ApplyFromBytes \/ ApplyParse

SpecParse == InitParse /\ [][NextParse]_vars

-----------------------------------------------------------------------------
(* The blocks the inode record parsers are run on *)

\* the most extents a record of the model lists
MaxExtents == 2
\* a block count that asks for more extents than a block can hold
TooManyBlocks == 57

\* the bytes from offset 56 on: extent e has sector 100 + e and count e, and
\* the last byte of the block is set
ExtentBytes ==
    [o \in 60 .. (59 + 8 * (MaxExtents + 1)) |->
       IF (o - 60) % 8 = 3 THEN 100 + ((o - 60) \div 8) + 1
       ELSE IF (o - 60) % 8 = 7 THEN ((o - 60) \div 8) + 1
       ELSE 0]

InodeBlock(f, i, type, sig, flags, numblocks) ==
    Put32(0, f) @@ Put32(16, i) @@ PutBytes(40, <<type>>) @@ PutBytes(44, sig)
        @@ PutBytes(52, flags) @@ Put32(56, numblocks) @@ ExtentBytes
        @@ PutBytes(APM_BLOCK_SIZE - 1, <<7>>)

InodeTypeBytes == {1, 8, 3}
InodeSignatures == {INODE_SIGNATURE, <<145, 35, 30, 189>>, <<0, 0, 0, 0>>}
InodeFlags == {INODE_DATA_IN_HEADER, INODE_CHAINED, INODE_CHAINED_DATA, NO_FLAGS}
\* a whole block, a block cut behind the first extent, behind the flags,
\* inside the signature, before the type byte
InodeLengths == {APM_BLOCK_SIZE, 68, 56, 46, 40}

InodeInputs ==
    {[len |-> n,
      bytes |-> LET b == InodeBlock(1, 0, type, sig, flags, numblocks)
                IN [o \in {x \in DOMAIN b : x < n} |-> b[o]]] :
       type \in InodeTypeBytes, sig \in InodeSignatures, flags \in InodeFlags,
       numblocks \in (0 .. MaxExtents) \cup {TooManyBlocks}, n \in InodeLengths}

InitInode ==
    /\ in_pc = "input"
    /\ in_input \in InodeInputs
    /\ in_sector = FirstSector
    /\ in_parse = InodeNotParsed
    /\ in_old = InodeNotParsed
    /\ IdleDisk
    /\ IdleIter
    /\ IdleLookup
    /\ IdleOpen
    /\ IdleParse
    /\ IdleNorm

NextInode == ApplyInodeParse \/ ApplyInodeParseOld

SpecInode == InitInode /\ [][NextInode]_vars

\* the three operations that hand out inodes: the record parse, the lookup
\* and the iteration, one of them in a behaviour
InitInodes == InitInode \/ InitLookup \/ InitIter

NextInodes ==
    \/ NextInode
    \/ lk_pc # "idle" /\ NextLookup
    \/ lk_pc = "idle" /\ in_pc = "idle" /\ NextIter

SpecInodes == InitInodes /\ [][NextInodes]_vars

-----------------------------------------------------------------------------
(* The buffers correct_byte_order is run on *)

\* the longest buffer
MaxLen == 4
NormBytes == {0, 20, 146}

InitNormalize ==
    /\ nz_pc = "input"
    /\ \E n \in 0 .. MaxLen : \E b \in [0 .. n - 1 -> NormBytes] :
         nz_input = [len |-> n, bytes |-> b]
    /\ nz_swapped \in BOOLEAN
    /\ nz_out = nz_input
    /\ nz_count = 0
    /\ native_le \in BOOLEAN
    /\ IdleOpenState
    /\ IdleDisk
    /\ IdleIter
    /\ IdleLookup
    /\ IdleParse
    /\ IdleInode

NextNormalize == ApplyCorrect

SpecNormalize == InitNormalize /\ [][NextNormalize]_vars

-----------------------------------------------------------------------------

Init == InitLookup \/ InitIter \/ InitOpen \/ InitParse \/ InitInode \/ InitNormalize

Next == NextLookup \/ NextIter \/ NextOpen \/ NextParse \/ NextInode \/ NextNormalize

Spec == Init /\ [][Next]_vars

-----------------------------------------------------------------------------
(* Claims about the lookup, checked under SpecLookup *)

\* the table size the lookup works with, and the base slot of the fsid
TableSize == IterLen(first_inode_sector, last_inode_sector)
BaseSlot == fsid_hash(fsid, TableSize)

\* the record of logical slot i, as stored at sector 1122 + 2 i
SlotAt(i) == MFSINode_parse(SectorContent(disk, FirstSector + 2 * i),
                            FirstSector + 2 * i)

SlotHolds(i) == SlotAt(i).ok /\ SlotAt(i).inode.fsid = fsid
SlotInUseOther(i) ==
    /\ SlotAt(i).ok
    /\ SlotAt(i).inode.fsid # fsid
    /\ SlotAt(i).inode.flags = INODE_CHAINED

\* the requested fsid sits d slots past its base slot, behind d in-use slots
\* of other fsids
TargetAtDistance(d) ==
    /\ SlotHolds(BaseSlot + d)
    /\ \A j \in 0 .. d - 1 : SlotInUseOther(BaseSlot + j)

FullNoMatch ==
    /\ TableSize >= 1
    /\ \A i \in 0 .. TableSize - 1 : SlotInUseOther(i)
    /\ \A s \in Sectors : ~(from_file_at_sector(disk, s).ok
                             /\ from_file_at_sector(disk, s).inode.fsid = fsid)

\* C2: on a table whose N slots are all in use and hold other fsids, the
\* finished lookup has probed the slots base, base+1, ... wrapping modulo N,
\* at most once around and back to the base, and returns NotFound.
C2_FullTableNotFound ==
    (lk_pc = "done" /\ FullNoMatch) =>
        /\ lk_result = ErrResult("Could not get INode for FSID")
        /\ Len(probes) <= TableSize + 1
        /\ \A k \in 1 .. Len(probes) :
             probes[k] = FirstSector + 2 * ((BaseSlot + k - 1) % TableSize)

-----------------------------------------------------------------------------
(* Claims about the iterator, checked under SpecIter *)

ZoneSectors == last_inode_sector - first_inode_sector + 1
ZoneSlots == ZoneSectors \div 2

\* the zone holds K whole slots and each of them reads and parses
WellFormedZone ==
    /\ ZoneSectors % 2 = 0
    /\ \A i \in 0 .. ZoneSlots - 1 :
         from_file_at_sector(disk, first_inode_sector + 2 * i).ok

\* C5: over a zone of K logical slots (sectors first..last, 2K of them) whose
\* reads all succeed, the iterator yields the inodes of sectors first,
\* first+2, ..., first+2(K-1) in that order, never more than K, reports
\* exhaustion only after all K, and after K the next call finds
\* next_inode_sector = last_inode_sector + 1 and returns None.
C5_IterYieldsK ==
    WellFormedZone =>
        /\ Len(yielded) <= ZoneSlots
        /\ \A i \in 1 .. Len(yielded) :
             yielded[i] = from_file_at_sector(disk, first_inode_sector + 2 * (i - 1)).inode
        /\ next_inode_sector = first_inode_sector + 2 * Len(yielded)
        /\ (exhausted => Len(yielded) = ZoneSlots)
        /\ (Len(yielded) = ZoneSlots => next_inode_sector = last_inode_sector + 1)

\* an iteration over a zone of three slots that has ended after three inodes
C5_Witness ==
    /\ WellFormedZone
    /\ ZoneSlots = 3
    /\ Len(yielded) = 3
    /\ exhausted

-----------------------------------------------------------------------------
(* Claims about the zone map chain, checked under SpecOpen *)

\* the volume header has been parsed and the chain is being, or has been, walked
Traversing ==
    /\ volume_header # NoVolumeHeader
    /\ op_pc \in {"walk", "done"}

\* the zone map that lies in the image ptr blocks behind the start of the
\* MFS partition
ZoneAt(ptr) ==
    MFSZoneMap_from_bytes(
        correct_byte_order(get_block_from_drive(app_start + ptr).buf,
                           is_byte_swapped)).zonemap

\* the pointers of the chain in link order, from ptr on, until a zero pointer
RECURSIVE LinkOrder(_, _)
LinkOrder(ptr, fuel) ==
    IF ptr = 0 \/ fuel = 0 THEN <<>>
    ELSE <<ptr>> \o LinkOrder(ZoneAt(ptr).next_zonemap_ptr, fuel - 1)

ChainPtrs ==
    <<volume_header.zonemap_ptr>>
        \o LinkOrder(ZoneAt(volume_header.zonemap_ptr).next_zonemap_ptr, MaxChain)

\* the number of blocks node i of the chain is read with: one for the first
\* node, the predecessor's next_zonemap_size for every other
ChainSize(i) == IF i = 1 THEN 1 ELSE ZoneAt(ChainPtrs[i - 1]).next_zonemap_size

\* node i lies inside the image and every block of it can be read
NodeReadable(i) ==
    /\ ChainSize(i) >= 1
    /\ \A b \in (app_start + ChainPtrs[i]) .. (app_start + ChainPtrs[i] + ChainSize(i) - 1) :
         b \in DOMAIN image /\ b \notin ioerr

\* a chain of n nodes, each pointing at the next, the last with pointer 0
WellFormedChain ==
    /\ Len(ChainPtrs) <= MaxChain
    /\ \A i \in 1 .. Len(ChainPtrs) : NodeReadable(i)

\* C3: on a well-formed chain of n nodes the traversal collects the zone
\* maps of the nodes in link order, never more than n, follows the next
\* pointer of the node it read last, and has finished only with all n zone
\* maps, a zero pointer, an Ok result and nothing printed.
C3_ChainInLinkOrder ==
    (Traversing /\ WellFormedChain) =>
        /\ Len(zones) >= 1
        /\ Len(zones) <= Len(ChainPtrs)
        /\ \A i \in 1 .. Len(zones) : zones[i] = ZoneAt(ChainPtrs[i])
        /\ next_zone_ptr = (IF Len(zones) < Len(ChainPtrs)
                            THEN ChainPtrs[Len(zones) + 1] ELSE 0)
        /\ (op_pc = "done" =>
              /\ Len(zones) = Len(ChainPtrs)
              /\ op_result = OpenOk
              /\ printed = <<>>)

\* a finished traversal of a chain of three nodes
C3_Witness ==
    /\ Traversing
    /\ WellFormedChain
    /\ op_pc = "done"
    /\ Len(ChainPtrs) = 3
    /\ Len(zones) = 3
    /\ zones[3].next_zonemap_ptr = 0
    /\ op_result = OpenOk

\* nodes 1..k of the chain are readable and node k points, with a non-zero
\* pointer, at a block outside the image
PointsOutside(k) ==
    /\ k + 1 = Len(ChainPtrs)
    /\ \A i \in 1 .. k : NodeReadable(i)
    /\ ChainPtrs[k + 1] # 0
    /\ ChainSize(k + 1) >= 1
    /\ app_start + ChainPtrs[k + 1] \notin DOMAIN image

\* C4: when node k points outside the image the finished traversal holds
\* exactly the first k zone maps, has not panicked, and its result tells the
\* caller that the chain ended early.
C4_OutsidePointer ==
    \A k \in 1 .. MaxZones :
        (Traversing /\ op_pc = "done" /\ PointsOutside(k)) =>
            /\ Len(zones) = k
            /\ \A i \in 1 .. k : zones[i] = ZoneAt(ChainPtrs[i])
            /\ op_result.kind # "Panic"
            /\ op_result # OpenOk

-----------------------------------------------------------------------------
(* Claims about the open sequence, checked under SpecOpen *)

\* the image has its first two bytes and they can be read
BootReadable == 0 \in DOMAIN image /\ 0 \notin ioerr

FirstByte == Byte([len |-> 2, bytes |-> image[0]], 0)
SecondByte == Byte([len |-> 2, bytes |-> image[0]], 1)

\* nothing behind the first two bytes has been read or parsed
NothingParsed ==
    /\ reads = <<>>
    /\ partitions = <<>>
    /\ volume_header = NoVolumeHeader
    /\ zones = <<>>

\* C6: once the first two bytes are read, 0x14,0x92 has set the order to
\* not swapped and 0x92,0x14 to swapped, and in both cases the open goes on
\* to block 1; every other pair has ended the open with the error
\* "Not a TiVo Drive", without a drive and with no later block read or parsed.
C6_ByteOrderDetection ==
    (BootReadable /\ op_pc # "boot") =>
        IF FirstByte = 20 /\ SecondByte = 146
        THEN /\ is_byte_swapped = FALSE
             /\ op_result # OpenErr("Not a TiVo Drive")
             /\ (op_pc = "descriptor" \/ (Len(reads) >= 1 /\ reads[1].location = 1))
        ELSE IF FirstByte = 146 /\ SecondByte = 20
        THEN /\ is_byte_swapped = TRUE
             /\ op_result # OpenErr("Not a TiVo Drive")
             /\ (op_pc = "descriptor" \/ (Len(reads) >= 1 /\ reads[1].location = 1))
        ELSE /\ op_pc = "done"
             /\ op_result = OpenErr("Not a TiVo Drive")
             /\ NothingParsed

\* an image that begins 0x14,0x14 and has been turned away
C6_Witness ==
    /\ BootReadable
    /\ FirstByte = 20
    /\ SecondByte = 20
    /\ op_pc = "done"
    /\ op_result = OpenErr("Not a TiVo Drive")

\* the entry of block b as Partition::new makes it out of the image
EntryAt(b) ==
    Partition_new(correct_byte_order(get_block_from_drive(b).buf, is_byte_swapped))

\* C7: after a successful open the partition map has exactly as many
\* entries as the entry of block 1 declares in partitions_total, and entry
\* i (0-based) is the partition parsed from block i+1.
C7_PartitionCount ==
    (op_pc = "done" /\ op_result = OpenOk) =>
        /\ Len(partitions) = EntryAt(1).partition.partitions_total
        /\ \A i \in 0 .. Len(partitions) - 1 :
             partitions[i + 1] = EntryAt(i + 1).partition

\* the first two bytes of block b, in the corrected byte order, are not "PM"
NotPM(b) ==
    LET blk == correct_byte_order(get_block_from_drive(b).buf, is_byte_swapped)
    IN BytesRange(blk, 0, 1) # STR_PM

\* C8: every step of the open that parses the partition entry of a block
\* whose first two bytes are not "PM" ends the open with an error result,
\* at block 1 as at the blocks 2..partitions_total.
C8_NotPMIsError ==
    [][(\/ op_pc = "descriptor" /\ NotPM(1)
        \/ /\ op_pc = "partitions"
           /\ offset <= partitions[1].partitions_total
           /\ NotPM(offset))
       => (op_pc' = "done" /\ op_result'.kind = "Err")]_vars

\* C9: an open that has parsed the whole partition map and found no entry
\* of type "MFS" has ended with an error result and has parsed no volume
\* header.
C9_NoMfsIsError ==
    (/\ op_pc = "done"
     /\ Len(partitions) >= 1
     /\ offset > partitions[1].partitions_total
     /\ MfsIndexes(partitions) = {}) =>
        /\ op_result.kind = "Err"
        /\ volume_header = NoVolumeHeader

-----------------------------------------------------------------------------
(* Claims about the volume header parsers, checked under SpecParse *)

\* the magic field of the input block: the four bytes at offset 4
InputMagic == BytesRange(pa_input, 4, 7)

KnownMagic == InputMagic \in {MFS32_HEADER_MAGIC, MFS64_HEADER_MAGIC}

\* a whole block whose device list is text
WholeHeader ==
    /\ pa_input.len = APM_BLOCK_SIZE
    /\ Utf8Valid(BytesRange(pa_input, 36, 163))

\* C10: a volume header parser that has run has succeeded only on a magic
\* of 0xABBAFEED or 0xEBBAFEED, has succeeded on a whole header block with
\* either of the two, and has returned an error on every other magic.
C10_MagicCheck ==
    \A r \in {pa_from_bytes, pa_parse} :
        r # NotParsed =>
            /\ (r.kind = "Ok" => KnownMagic)
            /\ ((KnownMagic /\ WholeHeader) => r.kind = "Ok")
            /\ ((pa_input.len >= 8 /\ ~KnownMagic) => r.kind = "Err")

-----------------------------------------------------------------------------
(* Claims about the inode record, checked under SpecInodes and SpecInode *)

\* the four bytes of the input block at the signature's offset are 0x91231ebc
InputSigned ==
    /\ in_input.len >= 48
    /\ Byte(in_input, 44) = 145
    /\ Byte(in_input, 45) = 35
    /\ Byte(in_input, 46) = 30
    /\ Byte(in_input, 47) = 188

\* the record of the image that sector holds carries the signature
SectorSigned(sector) == SectorContent(disk, sector).sig = <<145, 35, 30, 188>>

\* C11: an inode comes only from a record whose signature field is
\* 0x91231ebc: a parse of a block without it has failed, every inode the
\* iterator has yielded and the inode a lookup has returned were read from a
\* sector that carries it.
C11_SignatureChecked ==
    /\ \A r \in {in_parse, in_old} :
         /\ r.kind = "Ok" => InputSigned
         /\ (r # InodeNotParsed /\ ~InputSigned) => r.kind = "Err"
    /\ \A i \in 1 .. Len(yielded) : SectorSigned(yielded[i].sector_in_map)
    /\ lk_result.kind = "Ok" => SectorSigned(lk_result.inode.sector_in_map)

\* a whole block with a known type whose signature is wrong in its last
\* byte only, turned away by the parse
C11_Witness ==
    /\ in_input.len = APM_BLOCK_SIZE
    /\ Byte(in_input, 40) \in InodeTypes
    /\ BytesRange(in_input, 44, 47) = <<145, 35, 30, 189>>
    /\ in_parse = InodeErr("Tag")

\* the flags word of the input block is 0x40000000
InputDataInHeader == BytesRange(in_input, 52, 55) = <<64, 0, 0, 0>>

\* the bytes of the input block behind the flags word
InputTail == BytesRange(in_input, 56, in_input.len - 1)

\* the i-th (sector, count) pair behind the block count
InputPair(i) ==
    [sector |-> get_u32_from_bytes_range(in_input, 60 + 8 * (i - 1)),
     count |-> get_u32_from_bytes_range(in_input, 64 + 8 * (i - 1))]

\* the extent list of a record of the media_file_system.rs parser, which
\* keeps one pair in two fields
OldExtents(rec) ==
    IF rec.flags = INODE_DATA_IN_HEADER THEN <<>>
    ELSE <<[sector |-> rec.data_block_sector, count |-> rec.data_block_count]>>

\* the shape the flags word asks of a parsed record with the given extents
ShapeByFlags(rec, extents) ==
    IF InputDataInHeader
    THEN /\ rec.data = InputTail
         /\ rec.numblocks = 0
         /\ extents = <<>>
    ELSE /\ rec.data = <<>>
         /\ rec.numblocks = get_u32_from_bytes_range(in_input, 56)
         /\ Len(extents) = rec.numblocks
         /\ \A i \in 1 .. Len(extents) : extents[i] = InputPair(i)

\* C20: every inode a record parser has produced has the shape its flags
\* word asks for: with flags 0x40000000 the data are the bytes behind the
\* flags, numblocks is 0 and there are no extents; otherwise there are no
\* data and the extents are the numblocks pairs behind the block count.
C20_ShapeByFlags ==
    /\ in_parse.kind = "Ok" => ShapeByFlags(in_parse.inode, in_parse.inode.datablocks)
    /\ in_old.kind = "Ok" => ShapeByFlags(in_old.inode, OldExtents(in_old.inode))

-----------------------------------------------------------------------------
(* Claims about correct_byte_order, checked under SpecNormalize *)

\* the bytes of a buffer, in order
Contents(buf) == BytesRange(buf, 0, buf.len - 1)

\* C12: correct_byte_order applied twice with the same flag gives back the
\* buffer it started from, whatever the length of the buffer.
C12_DoubleNormalize ==
    nz_count = 2 => Contents(nz_out) = Contents(nz_input)

-----------------------------------------------------------------------------
(* Further claims about the lookup, checked under SpecLookup *)

\* a read or a parse has failed at one of the sectors the lookup has probed
ProbeFailed == \E k \in 1 .. Len(probes) : ~from_file_at_sector(disk, probes[k]).ok

\* C13: a lookup during which the read or the parse of a probed slot failed
\* has ended with the outcome of an absent fsid, and with no inode.
C13_FailureIsNotFound ==
    (lk_pc = "done" /\ ProbeFailed) =>
        /\ lk_result = ErrResult("Could not get INode for FSID")
        /\ lk_result.inode = NoInode

\* bit i of the natural number n
Bit(n, i) == (n \div (2 ^ i)) % 2

\* the index of the slot the lookup read first
FirstIndex == (probes[1] - 1122) \div 2

ProbeNotWrapped ==
    /\ inode_count # 0
    /\ (current_inode_id + 1) % inode_count # inode_id_base

\* bit 0x80000000 of the flags word of the record read last
InUseBit == current_inode.flags[1] >= 128

\* C15: in the loop, at a slot that does not hold the fsid, the lookup reads
\* the next slot if and only if bit 0x80000000 of the slot's flags is set
\* and the probe has not wrapped; with the bit clear it ends with NotFound
\* and reads nothing more.
C15_InUseBitGoverns ==
    [][(lk_pc = "loop" /\ current_inode.fsid # fsid) =>
         /\ (InUseBit /\ ProbeNotWrapped) => Len(probes') = Len(probes) + 1
         /\ ~(InUseBit /\ ProbeNotWrapped) => probes' = probes
         /\ ~InUseBit =>
              /\ lk_pc' = "done"
              /\ lk_result' = ErrResult("Could not get INode for FSID")]_vars

-----------------------------------------------------------------------------
(* Further claims about the iterator, checked under SpecIter *)

\* the number of inodes next() still yields when every read succeeds: the
\* sectors next, next+2, ... up to last
StillToYield ==
    Cardinality({s \in next_inode_sector .. last_inode_sector :
                   (s - next_inode_sector) % 2 = 0})

\* C16: at every point of an iteration over a zone whose reads all succeed
\* the length the iterator reports is the number of inodes still to come;
\* for a fresh iterator over K slots that is K, after exhaustion it is 0.
C16_LenIsRemaining ==
    WellFormedZone =>
        /\ IterLen(next_inode_sector, last_inode_sector) = StillToYield
        /\ (next_inode_sector = first_inode_sector =>
              IterLen(next_inode_sector, last_inode_sector) = ZoneSlots)
        /\ (exhausted => IterLen(next_inode_sector, last_inode_sector) = 0)

\* C17: for every extent first..last the iterator has yielded the inodes of
\* the sectors first, first+2, ... in steps of 2, none of them from a sector
\* behind last, and its position never passes last + 1.
C17_StaysInZone ==
    /\ \A i \in 1 .. Len(yielded) :
         /\ yielded[i].sector_in_map = first_inode_sector + 2 * (i - 1)
         /\ yielded[i].sector_in_map <= last_inode_sector
    /\ next_inode_sector <= last_inode_sector + 1


-----------------------------------------------------------------------------
(* Claims about the zone map reads, checked under SpecOpen *)

\* the reads that went to zone maps: those behind the reads of the partition
\* map (one per entry) and of the first block of the MFS partition
ZoneReadCount == Len(reads) - (Len(partitions) + 1)
ZoneRead(i) == reads[Len(partitions) + 1 + i]

\* C18: the traversal never reads a zone map it has already visited: the
\* zone map reads of one traversal go to pairwise different blocks (so that
\* the walk over a finite image ends after finitely many reads).
C18_NoRevisit ==
    Traversing =>
        \A i \in 1 .. ZoneReadCount : \A j \in 1 .. ZoneReadCount :
            i # j => ZoneRead(i).location # ZoneRead(j).location

\* the pointer and the size that name node i of the chain: those of the
\* volume header for the first node, those of the node before it otherwise
NamedPtr(i) ==
    IF i = 1 THEN volume_header.zonemap_ptr ELSE zones[i - 1].next_zonemap_ptr
NamedSize(i) ==
    IF i = 1 THEN volume_header.zonemap_size ELSE zones[i - 1].next_zonemap_size

\* C19: every zone map is read as size blocks from the block ptr behind the
\* start of the MFS partition, ptr and size being the volume header's
\* zonemap_ptr and zonemap_size for the first zone map and the previous zone
\* map's next_zonemap_ptr and next_zonemap_size for every other one.
C19_ReadAddressing ==
    Traversing =>
        \A i \in 1 .. ZoneReadCount :
            /\ ZoneRead(i).location = app_start + NamedPtr(i)
            /\ ZoneRead(i).count = NamedSize(i)


-----------------------------------------------------------------------------
(* Claims about the bounds and the result of the lookup, checked under
   SpecLookup *)

\* the slot index that probe k went to (sector_for_inode undone)
ProbeIndex(k) == (probes[k] - 1122) \div 2

\* C21: every slot index the lookup reads, the hashed base index and each
\* index reached by probing, lies in 0 .. inode_count - 1, and no probe
\* reads a sector behind the last sector of the inode zone.
C21_ProbesInTable ==
    \A k \in 1 .. Len(probes) :
        /\ ProbeIndex(k) \in 0 .. inode_count - 1
        /\ probes[k] <= last_inode_sector

\* the record in the sector the lookup read last
LastRead == from_file_at_sector(disk, probes[Len(probes)])

\* C22: when the lookup returns an inode record, the fsid of that record is
\* the fsid asked for, and the record is the one of the sector read last.
C22_ReturnsRequestedFsid ==
    lk_result.kind = "Ok" =>
        /\ lk_result.inode.fsid = fsid
        /\ Len(probes) >= 1
        /\ LastRead.ok
        /\ lk_result.inode = LastRead.inode

\* a lookup that found its record by probing, behind slots of other fsids
C22_Witness ==
    /\ lk_pc = "done"
    /\ lk_result.kind = "Ok"
    /\ Len(probes) >= 3
    /\ lk_result.inode.fsid = fsid
    /\ \A k \in 1 .. Len(probes) - 1 :
         from_file_at_sector(disk, probes[k]).inode.fsid # fsid

====
